---- MODULE Spec2Model ----
(***************************************************************************)
(* Model of the Supabase auth proxy (index.js): the verifyAuth middleware, *)
(* the /api/* forwarding handler, the /health probe and the catch-all.     *)
(*                                                                         *)
(* Strings the code inspects character by character (the Authorization     *)
(* value, the request URL) are sequences of one-character strings, with    *)
(* opaque words ("users", "t1") standing for runs of characters the code   *)
(* never looks into.  Every handler runs to its next await as one action.  *)
(***************************************************************************)
EXTENDS Integers, Sequences, FiniteSets, TLC

\* ------------------------------------------------------------------ bounds
\* Requests that exist in one behaviour.
MaxReqs == 2
\* Headers a client sends besides Authorization and Content-Type.
MaxExtraHdrs == 2

Reqs == 1..MaxReqs

\* ------------------------------------------------------- string primitives
\* String.prototype.startsWith
StartsWith(s, p) ==
  /\ Len(s) >= Len(p)
  /\ SubSeq(s, 1, Len(p)) = p

\* Index of the first occurrence of p in s, 0 when there is none.
IndexOf(s, p) ==
  LET hits == {i \in 1..(Len(s) - Len(p) + 1) : SubSeq(s, i, i + Len(p) - 1) = p}
  IN IF hits = {} THEN 0 ELSE CHOOSE i \in hits : \A j \in hits : i <= j

\* String.prototype.replace(p, w) with a string pattern: the FIRST occurrence
\* of p, wherever it is, is replaced; without an occurrence s is returned.
ReplaceFirst(s, p, w) ==
  LET i == IndexOf(s, p)
  IN IF i = 0 THEN s
     ELSE SubSeq(s, 1, i - 1) \o w \o SubSeq(s, i + Len(p), Len(s))

\* String.prototype.toLowerCase on the header names of the model.
ToLowerCase(name) ==
  CASE name = "Authorization"  -> "authorization"
    [] name = "Content-Type"   -> "content-type"
    [] name = "Content-Length" -> "content-length"
    [] name = "Host"           -> "host"
    [] name = "Accept"         -> "accept"
    [] name = "X-User-Id"      -> "x-user-id"
    [] name = "X-USER-EMAIL"   -> "x-user-email"
    [] name = "X-User-Email"   -> "x-user-email"
    [] name = "X-Internal-Key" -> "x-internal-key"
    [] name = "Location"       -> "location"
    [] name = "Access-Control-Allow-Origin" -> "access-control-allow-origin"
    [] OTHER                   -> name

\* ------------------------------------------------------------ the requests
\* 'Bearer ', the literal of index.js:50 and index.js:58.
BearerPrefix == <<"B", "e", "a", "r", "e", "r", " ">>

Absent == <<"<absent>">>

\* Authorization values a client may send (Absent: no such header).
AuthValues ==
  { Absent,
    << >>,
    <<"B", "e", "a", "r", "e", "r">>,
    <<"b", "e", "a", "r", "e", "r", " ", "t1">>,
    <<"B", "a", "s", "i", "c", " ", "t1">>,
    BearerPrefix,
    BearerPrefix \o <<"t1">>,
    BearerPrefix \o BearerPrefix \o <<"t1">> }

\* Request paths, and which of them the routes of index.js match.
ApiPaths ==
  { <<"/", "a", "p", "i", "/", "users">>,
    <<"/", "a", "p", "i", "/">>,
    <<"/", "a", "p", "i", "/", "users", "/", "42">>,
    <<"/", "a", "p", "i", "/", "/", "users">>,
    <<"/", "A", "P", "I", "/", "users">> }

OtherPaths ==
  { <<"/", "health">>,
    <<"/">>,
    <<"/", "nope">>,
    <<"/", "a", "p", "i">> }

\* Query strings, as the list of their k=v parts (joined by '&' on the wire).
QueryStrings == { << >>, <<"a=1", "b=2">>, <<"a=1", "a=2">> }

\* Method with the body the client sends: its Content-Type and its bytes.
Payloads ==
  { [method |-> "GET",  ctype |-> "", raw |-> ""],
    [method |-> "POST", ctype |-> "application/json", raw |-> "{\"n\":1}"],
    [method |-> "POST", ctype |-> "application/json", raw |-> "{ \"n\": 1 }"],
    [method |-> "POST", ctype |-> "text/plain", raw |-> "hello"],
    [method |-> "POST", ctype |-> "application/json", raw |-> "{bad"],
    [method |-> "OPTIONS", ctype |-> "", raw |-> ""] }

\* Further headers a client may send, as <<name on the wire, value>>.
ExtraHdrPool ==
  << <<"X-User-Id", "evil-id">>,
     <<"X-USER-EMAIL", "evil@x">>,
     <<"X-Internal-Key", "guess">>,
     <<"Host", "proxy.example">>,
     <<"Content-Length", "17">>,
     <<"Accept", "text/html">> >>

RECURSIVE PickHdrs(_, _)
\* The pool's entries whose index is in S, in pool order.
PickHdrs(S, i) ==
  IF i > Len(ExtraHdrPool) THEN << >>
  ELSE (IF i \in S THEN <<ExtraHdrPool[i]>> ELSE << >>) \o PickHdrs(S, i + 1)

ExtraHdrSets ==
  { PickHdrs(S, 1) : S \in {T \in SUBSET (1..Len(ExtraHdrPool)) : Cardinality(T) <= MaxExtraHdrs} }

\* The header lines of a request as the client wrote them.
WireHeaders(auth, payload, extra) ==
  (IF auth = Absent THEN << >> ELSE << <<"Authorization", auth>> >>)
  \o (IF payload.ctype = "" THEN << >> ELSE << <<"Content-Type", <<payload.ctype>> >> >>)
  \o [i \in 1..Len(extra) |-> <<extra[i][1], <<extra[i][2]>> >>]

Requests(paths) ==
  { [method |-> p.method, path |-> path, query |-> q,
     headers |-> WireHeaders(a, p, x), raw |-> p.raw, ctype |-> p.ctype] :
      p \in Payloads, path \in paths, q \in QueryStrings, a \in AuthValues, x \in ExtraHdrSets }


\* ------------------------------------------------------------ configuration
INTERNAL_API_URL == <<"http://internal:8080">>
SUPABASE_URL == <<"https://project.supabase.co">>
\* Values of process.env.INTERNAL_API_KEY || '' ("" : not configured).
ApiKeys == {"", "s3cret"}

\* -------------------------------------------------- what Node/Express give
RECURSIVE TrimEnd(_)
\* A header value without the spaces at its end; they are no part of the
\* value for Node's HTTP parser.
TrimEnd(value) ==
  IF value # << >> /\ value[Len(value)] = " "
  THEN TrimEnd(SubSeq(value, 1, Len(value) - 1))
  ELSE value

\* req.headers: Node lower-cases every header name it parses and drops the
\* white space around every value.
ReqHeaders(q) ==
  [i \in 1..Len(q.headers) |-> <<ToLowerCase(q.headers[i][1]), TrimEnd(q.headers[i][2])>>]

\* Property read obj[key] on an object kept as its <<key, value>> entries in
\* insertion order; keys are compared exactly, as JavaScript does.
Get(obj, key) ==
  LET hits == {i \in 1..Len(obj) : obj[i][1] = key}
  IN IF hits = {} THEN Absent ELSE obj[CHOOSE i \in hits : TRUE][2]

\* Property write obj[key] = value: an existing key keeps its position.
Put(obj, key, value) ==
  IF \E i \in 1..Len(obj) : obj[i][1] = key
  THEN [i \in 1..Len(obj) |-> IF obj[i][1] = key THEN <<key, value>> ELSE obj[i]]
  ELSE Append(obj, <<key, value>>)

RECURSIVE PutAll(_, _)
\* {...obj, ...entries}: the entries written one after another.
PutAll(obj, entries) ==
  IF entries = << >> THEN obj
  ELSE PutAll(Put(obj, entries[1][1], entries[1][2]), Tail(entries))

RECURSIVE JoinWith(_, _)
\* parts.join(sep)
JoinWith(parts, sep) ==
  IF Len(parts) <= 1 THEN parts
  ELSE <<parts[1], sep>> \o JoinWith(Tail(parts), sep)

\* req.url: the request target, path and query string.
ReqUrl(q) == q.path \o (IF q.query = << >> THEN << >> ELSE <<"?">> \o JoinWith(q.query, "&"))

\* JSON texts and the values they denote.
EmptyObject == "object {}"
JsonParse(text) ==
  CASE text = "{\"n\":1}"     -> "object {n:1}"
    [] text = "{ \"n\": 1 }"  -> "object {n:1}"
    [] text = "{}"            -> EmptyObject
    [] text = "7"             -> "number 7"
    [] text = "404"           -> "number 404"
    [] OTHER                  -> "SyntaxError"
JsonStringify(value) ==
  CASE value = "object {n:1}" -> "{\"n\":1}"
    [] value = EmptyObject    -> "{}"
    [] value = "number 7"     -> "7"
    [] value = "number 404"   -> "404"
\* The number a JSON number value is.
NumberOf(value) ==
  CASE value = "number 7"   -> 7
    [] value = "number 404" -> 404
    [] OTHER                -> 0
IsNumber(value) == value \in {"number 7", "number 404"}

\* index.js:9: express.json() ends a request whose Content-Type is
\* application/json and whose body is not JSON text with an error (400).
BodyParseFails(q) ==
  q.ctype = "application/json" /\ q.raw # "" /\ JsonParse(q.raw) = "SyntaxError"

\* index.js:10: cors() answers every OPTIONS request itself (204) and lets
\* every other request through to the routes.
IsPreflight(q) == q.method = "OPTIONS"

\* The request gets past the middleware of index.js:9-10 to the routes.
ReachesRoutes(q) == ~BodyParseFails(q) /\ ~IsPreflight(q)

\* Express matches routes without regard to letter case (its default).
LowerChar(c) ==
  CASE c = "A" -> "a" [] c = "P" -> "p" [] c = "I" -> "i" [] OTHER -> c
LowerPath(path) == [i \in 1..Len(path) |-> LowerChar(path[i])]

\* app.get('/health', ...)
MatchesHealth(q) == q.method = "GET" /\ LowerPath(q.path) = <<"/", "health">>
\* Mutant: verifyAuth and the forwarder are mounted on every path.
MatchesApiEverywhere(q) == ~MatchesHealth(q)

\* app.all('/api/*', ...): '/api/' and anything after it.
MatchesApi(q) ==
  /\ ~MatchesHealth(q)
  /\ StartsWith(LowerPath(q.path), <<"/", "a", "p", "i", "/">>)
\* app.all('*', ...)
MatchesCatchAll(q) == ~MatchesHealth(q) /\ ~MatchesApi(q)

\* The parts k=v of a query string.
KeyOf(part) == CASE part = "a=1" -> "a" [] part = "a=2" -> "a" [] part = "b=2" -> "b"
ValOf(part) == CASE part = "a=1" -> "1" [] part = "a=2" -> "2" [] part = "b=2" -> "2"
Part(k, v) ==
  CASE <<k, v>> = <<"a", "1">> -> "a=1"
    [] <<k, v>> = <<"a", "2">> -> "a=2"
    [] <<k, v>> = <<"b", "2">> -> "b=2"
\* A member of an array-valued parameter, as axios writes it.
ArrayPart(k, v) ==
  CASE <<k, v>> = <<"a", "1">> -> "a[]=1"
    [] <<k, v>> = <<"a", "2">> -> "a[]=2"
    [] <<k, v>> = <<"b", "2">> -> "b[]=2"

RECURSIVE FirstKeys(_, _)
\* The keys of a query string, each once, in order of first appearance.
FirstKeys(parts, seen) ==
  IF parts = << >> THEN << >>
  ELSE IF KeyOf(parts[1]) \in seen THEN FirstKeys(Tail(parts), seen)
  ELSE <<KeyOf(parts[1])>> \o FirstKeys(Tail(parts), seen \cup {KeyOf(parts[1])})

ValuesOf(parts, k) ==
  LET mine == SelectSeq(parts, LAMBDA p : KeyOf(p) = k)
  IN [i \in 1..Len(mine) |-> ValOf(mine[i])]

\* req.query: Express parses the query string; a repeated key becomes an array.
ReqQuery(q) ==
  LET ks == FirstKeys(q.query, {})
  IN [i \in 1..Len(ks) |-> [k |-> ks[i], vs |-> ValuesOf(q.query, ks[i])]]

\* req.body after app.use(express.json()): the parsed JSON of a request whose
\* Content-Type is application/json, {} for every other request.
ReqBody(q) ==
  IF q.ctype = "application/json" /\ q.raw # "" THEN JsonParse(q.raw) ELSE EmptyObject

\* --------------------------------------------------------- the collaborators
NoUser == [id |-> "", email |-> ""]
Users == { [id |-> "u1", email |-> "a@b.com"], [id |-> "u2", email |-> "c@d.com"] }

\* What supabase.auth.getUser(token) may resolve to: { data: { user }, error }.
\* error "" stands for null.  The last reply carries both a user and an error.
GetUserResults ==
  { [user |-> u, error |-> ""] : u \in Users }
  \cup { [user |-> NoUser, error |-> e] : e \in {"invalid JWT", "token is expired"} }
  \cup { [user |-> NoUser, error |-> ""] }
  \cup { [user |-> [id |-> "u1", email |-> "a@b.com"], error |-> "session revoked"] }
\* Messages of the exceptions the call may throw instead.
GetUserExceptions == {"fetch failed", "socket hang up"}

\* What the downstream service may answer, and the transport errors of axios.
DownstreamStatuses == {200, 302, 404, 500}
DownstreamBodies == {"{\"n\":1}", "{ \"n\": 1 }", "hello", "7", "404"}
\* The headers a response of the downstream service carries; its
\* Content-Length is the length of its body.
DownstreamHeaders(status, raw) ==
  (IF status = 302
   THEN << <<"location", <<"/login">> >>, <<"x-trace", <<"7">> >>,
           <<"access-control-allow-origin", <<"https://app.example">> >> >>
   ELSE << <<"content-type", <<"application/json">> >> >>)
  \o << <<"content-length", <<ToString(Len(raw))>> >> >>
DownstreamResponses ==
  { [status |-> st, headers |-> DownstreamHeaders(st, b), raw |-> b] :
      st \in DownstreamStatuses, b \in DownstreamBodies }
ErrorCodes == {"ECONNREFUSED", "ETIMEDOUT", "ECONNABORTED", "ENOTFOUND"}

\* ------------------------------------------------------------- verifyAuth
\* Mutant: only the presence of the header is checked.
HeaderRejectedWhenMissing(authHeader) ==
  \/ authHeader = Absent
  \/ authHeader = << >>

\* index.js:50, the local check of the Authorization header.
HeaderRejected(authHeader) ==
  \/ authHeader = Absent
  \/ authHeader = << >>
  \/ ~StartsWith(authHeader, BearerPrefix)

\* Mutant: every 'Bearer ' of the value is removed, as replaceAll would.
TokenWithoutAnyPrefix(authHeader) ==
  ReplaceFirst(ReplaceFirst(authHeader, BearerPrefix, << >>), BearerPrefix, << >>)

\* index.js:58
Token(authHeader) == ReplaceFirst(authHeader, BearerPrefix, << >>)

\* -------------------------------------------------------------- responses
\* A response body: a JSON object written by res.json, as its <<field, value>>
\* entries, or bytes written by res.send.
Json(obj) == [kind |-> "json", json |-> obj, text |-> ""]
Bytes(text) == [kind |-> "bytes", json |-> << >>, text |-> text]
ErrorBody(error, message) == Json(<< <<"error", error>>, <<"message", message>> >>)

\* The response object before a handler touched it.
FreshRes == [status |-> 200, headers |-> << >>, body |-> Bytes(""), sends |-> 0]

\* index.js:10: cors() puts its header on the response of every request.
Cors(res) ==
  [res EXCEPT !.headers = Put(res.headers, "access-control-allow-origin", <<"*">>)]

RECURSIVE FieldsLength(_)
\* The length of the fields "k":"v" of an object in JSON text, commas included.
FieldsLength(obj) ==
  IF obj = << >> THEN 0
  ELSE Len(obj[1][1]) + Len(obj[1][2]) + 5
       + (IF Len(obj) > 1 THEN 1 ELSE 0) + FieldsLength(Tail(obj))

\* The number of bytes of a body.
ByteLength(body) ==
  IF body.kind = "json" THEN 2 + FieldsLength(body.json) ELSE Len(body.text)

\* A Content-Type value with the charset res.send writes a string in.
SetCharset(type) == <<type[1], "; charset=utf-8">>

\* res.send(chunk) of Express 4 for a string, to which res.json comes down
\* too: without a Content-Type so far the default one is set, the
\* Content-Type gets charset=utf-8, Content-Length is set to the length of
\* the chunk, and the response is written.
Send(res, defaultType, body) ==
  LET type == IF Get(res.headers, "content-type") = Absent THEN <<defaultType>>
              ELSE Get(res.headers, "content-type")
  IN [res EXCEPT !.headers = Put(Put(res.headers, "content-type", SetCharset(type)),
                                 "content-length", <<ToString(ByteLength(body))>>),
                 !.body = body,
                 !.sends = res.sends + 1]

\* res.status(code).json(obj)
StatusJson(res, code, obj) ==
  Send([res EXCEPT !.status = code], "application/json", Json(obj))

\* Mutant: a header that is already set keeps its value.
SetHeaderIfAbsent(res, key, value) ==
  IF Get(res.headers, ToLowerCase(key)) = Absent
  THEN [res EXCEPT !.headers = Put(res.headers, ToLowerCase(key), value)]
  ELSE res

\* res.setHeader(key, value)
SetHeader(res, key, value) == [res EXCEPT !.headers = Put(res.headers, ToLowerCase(key), value)]

RECURSIVE SetHeaders(_, _)
\* index.js:129-131
SetHeaders(res, entries) ==
  IF entries = << >> THEN res
  ELSE SetHeaders(SetHeader(res, entries[1][1], entries[1][2]), Tail(entries))

\* response.data: axios parses a body that is JSON text and keeps the text of
\* any other body (its default transformResponse).
ResponseData(raw) ==
  IF JsonParse(raw) = "SyntaxError" THEN [t |-> "string", v |-> raw]
  ELSE IF IsNumber(JsonParse(raw)) THEN [t |-> "number", v |-> JsonParse(raw)]
  ELSE [t |-> "object", v |-> JsonParse(raw)]

\* The reason phrase Express looks up for a status code ("" : none).
StatusMessage(code) ==
  CASE code = 404 -> "Not Found"
    [] OTHER      -> ""

\* http.ServerResponse.writeHead throws a RangeError for such a status code.
InvalidStatusCode(code) == code < 100 \/ code > 999

\* res.status(code).send(data) of Express 4: an object is written as
\* JSON.stringify gives it, a string as it is; a number as the only argument
\* is taken for a status code (res.send(status)): it replaces the status,
\* its reason phrase is the body and, without a Content-Type so far, the
\* type is text/plain.
StatusSend(res, code, data) ==
  IF data.t = "number"
  THEN Send([res EXCEPT !.status = NumberOf(data.v)], "text/plain",
            Bytes(StatusMessage(NumberOf(data.v))))
  ELSE IF data.t = "object"
  THEN Send([res EXCEPT !.status = code], "application/json", Bytes(JsonStringify(data.v)))
  ELSE Send([res EXCEPT !.status = code], "text/html", Bytes(data.v))

\* res.status(code).send(data) throws: writing the head of the response
\* fails on the status code a number left.
SendThrows(data) == data.t = "number" /\ InvalidStatusCode(NumberOf(data.v))

\* --------------------------------------------------------------- forwarding
\* Mutant: the pattern /^\/api/, which leaves the slash after the prefix.
ApiPathKeepingSlash(url) ==
  IF StartsWith(url, <<"/", "a", "p", "i">>) THEN SubSeq(url, 5, Len(url)) ELSE url

\* index.js:97: req.url.replace(/^\/api\/?/, ''), a case-sensitive pattern
\* anchored at the start of the URL.
ApiPath(url) ==
  IF StartsWith(url, <<"/", "a", "p", "i">>)
  THEN IF Len(url) >= 5 /\ url[5] = "/" THEN SubSeq(url, 6, Len(url))
       ELSE SubSeq(url, 5, Len(url))
  ELSE url

\* index.js:98
InternalUrl(url) == INTERNAL_API_URL \o <<"/">> \o ApiPath(url)

\* Mutant: host is not on the list.
BlocklistWithoutHost == {"authorization", "content-length"}

\* index.js:119
Blocklist == {"authorization", "host", "content-length"}
Forwardable(headers) == SelectSeq(headers, LAMBDA e : ToLowerCase(e[1]) \notin Blocklist)

\* index.js:109-121, the object literal, its properties in source order.
ForwardHeaders(q, user, key) ==
  LET h1 == Put(<< >>, "Content-Type", <<"application/json">>)
      h2 == IF key # "" THEN Put(h1, "X-Internal-Key", <<key>>) ELSE h1
      h3 == Put(h2, "X-User-Id", <<user.id>>)
      h4 == Put(h3, "X-User-Email", <<user.email>>)
  IN PutAll(h4, Forwardable(ReqHeaders(q)))

\* Mutant: maxRedirects is left at the default of axios.
AxiosConfigFollowing(q, user, key) ==
  [method |-> q.method,
   url |-> InternalUrl(ReqUrl(q)),
   data |-> ReqBody(q),
   params |-> ReqQuery(q),
   headers |-> ForwardHeaders(q, user, key),
   maxRedirects |-> 5]

\* index.js:104-124, the argument of axios(...).
AxiosConfig(q, user, key) ==
  [method |-> q.method,
   url |-> InternalUrl(ReqUrl(q)),
   data |-> ReqBody(q),
   params |-> ReqQuery(q),
   headers |-> ForwardHeaders(q, user, key),
   maxRedirects |-> 0]

\* index.js:123: axios goes after a 3xx answer that has a Location, with a
\* further request to that location, as long as it has issued no more than
\* maxRedirects requests after the first one.  sent: the requests issued so
\* far for one call, the first of them the config itself.
Redirected(sent, response) ==
  /\ response.status \in 300..399
  /\ Get(response.headers, "location") # Absent
  /\ Len(sent) <= sent[1].maxRedirects

\* What axios puts on the wire for a config.
RECURSIVE SerializeParams(_)
SerializeParams(params) ==
  IF params = << >> THEN << >>
  ELSE LET p == params[1]
       IN (IF Len(p.vs) = 1 THEN <<Part(p.k, p.vs[1])>>
           ELSE [j \in 1..Len(p.vs) |-> ArrayPart(p.k, p.vs[j])])
          \o SerializeParams(Tail(params))

\* The request target: params are appended to the url, after '?' or, when the
\* url already holds a '?', after '&'.
SentUrl(cfg) ==
  LET parts == SerializeParams(cfg.params)
      hasQuery == \E i \in 1..Len(cfg.url) : cfg.url[i] = "?"
  IN IF parts = << >> THEN cfg.url
     ELSE cfg.url \o <<IF hasQuery THEN "&" ELSE "?">> \o JoinWith(parts, "&")

\* The path and the query parameters the downstream service sees.
SentPath(cfg) ==
  LET u == SentUrl(cfg)
      i == IndexOf(u, <<"?">>)
  IN IF i = 0 THEN u ELSE SubSeq(u, 1, i - 1)
SentQuery(cfg) ==
  LET u == SentUrl(cfg)
      i == IndexOf(u, <<"?">>)
  IN IF i = 0 THEN << >>
     ELSE SelectSeq(SubSeq(u, i + 1, Len(u)), LAMBDA x : x # "&")

\* The body: axios writes an object as JSON.
SentBody(cfg) == JsonStringify(cfg.data)

\* A header as the downstream service reads it: names are case-insensitive
\* and of two properties naming one header the later one is sent.
SentHeader(cfg, name) ==
  LET hits == {i \in 1..Len(cfg.headers) : ToLowerCase(cfg.headers[i][1]) = name}
  IN IF hits = {} THEN Absent
     ELSE cfg.headers[CHOOSE i \in hits : \A j \in hits : j <= i][2]

\* -------------------------------------------------------------------- state
VARIABLES
  INTERNAL_API_KEY, \* index.js:17, read once at start
  pc,               \* per request: "idle", "getUser", "axios", "done"
  req,              \* per request: the request as the client sent it
  reqUser,          \* per request: req.user
  getUserCalls,     \* per request: the tokens passed to supabase.auth.getUser
  getUserResult,    \* per request: how that call settled
  axiosCalls,       \* per request: the requests axios issued downstream
  axiosResult,      \* per request: how that call settled
  res               \* per request: the response written so far

vars == <<INTERNAL_API_KEY, pc, req, reqUser, getUserCalls, getUserResult,
          axiosCalls, axiosResult, res>>

NoReq == [method |-> "", path |-> << >>, query |-> << >>, headers |-> << >>,
          raw |-> "", ctype |-> ""]
Pending == [outcome |-> "none", user |-> NoUser, error |-> "",
            status |-> 0, headers |-> << >>, raw |-> "", code |-> ""]

Init ==
  /\ INTERNAL_API_KEY \in ApiKeys
  /\ pc = [r \in Reqs |-> "idle"]
  /\ req = [r \in Reqs |-> NoReq]
  /\ reqUser = [r \in Reqs |-> NoUser]
  /\ getUserCalls = [r \in Reqs |-> << >>]
  /\ getUserResult = [r \in Reqs |-> Pending]
  /\ axiosCalls = [r \in Reqs |-> << >>]
  /\ axiosResult = [r \in Reqs |-> Pending]
  /\ res = [r \in Reqs |-> FreshRes]

\* index.js:9: express.json() refuses the body; Express answers the error.
JsonBodyRejected(r, q) ==
  /\ pc[r] = "idle"
  /\ BodyParseFails(q)
  /\ req' = [req EXCEPT ![r] = q]
  /\ res' = [res EXCEPT ![r] =
       [@ EXCEPT !.status = 400, !.body = Bytes("<pre>SyntaxError</pre>"), !.sends = @ + 1]]
  /\ pc' = [pc EXCEPT ![r] = "done"]
  /\ UNCHANGED <<INTERNAL_API_KEY, reqUser, getUserCalls, getUserResult, axiosCalls, axiosResult>>

\* index.js:10: cors() answers an OPTIONS request; no route sees it.
CorsPreflight(r, q) ==
  /\ pc[r] = "idle"
  /\ ~BodyParseFails(q)
  /\ IsPreflight(q)
  /\ req' = [req EXCEPT ![r] = q]
  /\ res' = [res EXCEPT ![r] = [Cors(@) EXCEPT !.status = 204, !.sends = @ + 1]]
  /\ pc' = [pc EXCEPT ![r] = "done"]
  /\ UNCHANGED <<INTERNAL_API_KEY, reqUser, getUserCalls, getUserResult, axiosCalls, axiosResult>>

\* Mutant: the probe is registered behind verifyAuth.
HealthBehindAuth(r, q) ==
  /\ pc[r] = "idle"
  /\ ReachesRoutes(q)
  /\ MatchesHealth(q)
  /\ req' = [req EXCEPT ![r] = q]
  /\ res' = [res EXCEPT ![r] =
       IF HeaderRejected(Get(ReqHeaders(q), "authorization"))
       THEN StatusJson(Cors(@), 401, ErrorBody("Unauthorized",
              "Missing or invalid Authorization header. Expected: Bearer <token>").json)
       ELSE StatusJson(Cors(@), @.status, << <<"status", "ok">>, <<"timestamp", "now">>,
                                             <<"supabase", SUPABASE_URL[1]>>,
                                             <<"internalApi", INTERNAL_API_URL[1]>> >>)]
  /\ pc' = [pc EXCEPT ![r] = "done"]
  /\ UNCHANGED <<INTERNAL_API_KEY, reqUser, getUserCalls, getUserResult, axiosCalls, axiosResult>>

\* index.js:37-44: GET /health.
Health(r, q) ==
  /\ pc[r] = "idle"
  /\ ReachesRoutes(q)
  /\ MatchesHealth(q)
  /\ req' = [req EXCEPT ![r] = q]
  /\ res' = [res EXCEPT ![r] =
       StatusJson(Cors(@), @.status, << <<"status", "ok">>, <<"timestamp", "now">>,
                                 <<"supabase", SUPABASE_URL[1]>>,
                                 <<"internalApi", INTERNAL_API_URL[1]>> >>)]
  /\ pc' = [pc EXCEPT ![r] = "done"]
  /\ UNCHANGED <<INTERNAL_API_KEY, reqUser, getUserCalls, getUserResult, axiosCalls, axiosResult>>

\* index.js:166-173: the document of the root path; the nested object of
\* its endpoints is kept as one value.
SelfDescription ==
  << <<"name", "Supabase Auth Proxy">>,
     <<"version", "1.0.0">>,
     <<"endpoints", "object {health:'/health', api:'/api/*'}">> >>

\* Mutant: the catch-all answers 404 for the root path too.
CatchAllWithoutRoot(r, q) ==
  /\ pc[r] = "idle"
  /\ ReachesRoutes(q)
  /\ MatchesCatchAll(q)
  /\ req' = [req EXCEPT ![r] = q]
  /\ res' = [res EXCEPT ![r] =
       StatusJson(Cors(@), 404, ErrorBody("Not Found",
                    "Invalid endpoint. API routes should start with /api/").json)]
  /\ pc' = [pc EXCEPT ![r] = "done"]
  /\ UNCHANGED <<INTERNAL_API_KEY, reqUser, getUserCalls, getUserResult, axiosCalls, axiosResult>>

\* index.js:159-175: every request no earlier route answered.
CatchAll(r, q) ==
  /\ pc[r] = "idle"
  /\ ReachesRoutes(q)
  /\ MatchesCatchAll(q)
  /\ req' = [req EXCEPT ![r] = q]
  /\ res' = [res EXCEPT ![r] =
       IF q.path # <<"/">>
       THEN StatusJson(Cors(@), 404, ErrorBody("Not Found",
                       "Invalid endpoint. API routes should start with /api/").json)
       ELSE StatusJson(Cors(@), @.status, SelfDescription)]
  /\ pc' = [pc EXCEPT ![r] = "done"]
  /\ UNCHANGED <<INTERNAL_API_KEY, reqUser, getUserCalls, getUserResult, axiosCalls, axiosResult>>

\* index.js:48-56: verifyAuth answers 401 itself.
VerifyAuthRejects(r, q) ==
  /\ pc[r] = "idle"
  /\ ReachesRoutes(q)
  /\ MatchesApi(q)
  /\ HeaderRejected(Get(ReqHeaders(q), "authorization"))
  /\ req' = [req EXCEPT ![r] = q]
  /\ res' = [res EXCEPT ![r] =
       StatusJson(Cors(@), 401, ErrorBody("Unauthorized",
         "Missing or invalid Authorization header. Expected: Bearer <token>").json)]
  /\ pc' = [pc EXCEPT ![r] = "done"]
  /\ UNCHANGED <<INTERNAL_API_KEY, reqUser, getUserCalls, getUserResult, axiosCalls, axiosResult>>

\* Mutant: verifyAuth keeps the users it resolved and asks the identity
\* provider only about a token it has not seen.
VerifyAuthCached(r, q) ==
  /\ pc[r] = "idle"
  /\ ReachesRoutes(q)
  /\ MatchesApi(q)
  /\ ~HeaderRejected(Get(ReqHeaders(q), "authorization"))
  /\ req' = [req EXCEPT ![r] = q]
  /\ res' = [res EXCEPT ![r] = Cors(@)]
  /\ LET known == { o \in Reqs : /\ reqUser[o] # NoUser
                                  /\ getUserCalls[o] = <<Token(Get(ReqHeaders(q), "authorization"))>> }
     IN IF known = {}
        THEN /\ getUserCalls' = [getUserCalls EXCEPT ![r] =
                  Append(@, Token(Get(ReqHeaders(q), "authorization")))]
             /\ pc' = [pc EXCEPT ![r] = "getUser"]
             /\ UNCHANGED <<reqUser, axiosCalls>>
        ELSE /\ reqUser' = [reqUser EXCEPT ![r] = reqUser[CHOOSE o \in known : TRUE]]
             /\ axiosCalls' = [axiosCalls EXCEPT ![r] =
                  Append(@, AxiosConfig(q, reqUser'[r], INTERNAL_API_KEY))]
             /\ pc' = [pc EXCEPT ![r] = "axios"]
             /\ UNCHANGED getUserCalls
  /\ UNCHANGED <<INTERNAL_API_KEY, getUserResult, axiosResult>>

\* index.js:48-62: verifyAuth calls supabase.auth.getUser(token) and awaits it.
VerifyAuthCalls(r, q) ==
  /\ pc[r] = "idle"
  /\ ReachesRoutes(q)
  /\ MatchesApi(q)
  /\ ~HeaderRejected(Get(ReqHeaders(q), "authorization"))
  /\ req' = [req EXCEPT ![r] = q]
  /\ getUserCalls' = [getUserCalls EXCEPT ![r] =
       Append(@, Token(Get(ReqHeaders(q), "authorization")))]
  /\ res' = [res EXCEPT ![r] = Cors(@)]
  /\ pc' = [pc EXCEPT ![r] = "getUser"]
  /\ UNCHANGED <<INTERNAL_API_KEY, reqUser, getUserResult, axiosCalls, axiosResult>>

\* Mutant: the error of the reply is not looked at.
VerdictIgnoringError(result) ==
  IF result.user = NoUser THEN "not found" ELSE "authenticated"

\* Mutant: the user is looked at before the error.
VerdictUserFirst(result) ==
  IF result.user = NoUser THEN "not found"
  ELSE IF result.error # "" THEN "invalid"
  ELSE "authenticated"

\* index.js:64-84: what verifyAuth makes of the resolved { data: { user }, error }.
Verdict(result) ==
  IF result.error # "" THEN "invalid"
  ELSE IF result.user = NoUser THEN "not found"
  ELSE "authenticated"

\* index.js:62-84 and, through next(), index.js:96-124: the call returned.
\* An authenticated request goes on to the route handler, which runs up to
\* its await of axios(...).
GetUserReturns(r, result) ==
  /\ pc[r] = "getUser"
  /\ getUserResult[r].outcome = "none"
  /\ getUserResult' = [getUserResult EXCEPT ![r] =
       [Pending EXCEPT !.outcome = "returned", !.user = result.user, !.error = result.error]]
  /\ CASE Verdict(result) = "invalid" ->
            /\ res' = [res EXCEPT ![r] =
                 StatusJson(@, 401, ErrorBody("Unauthorized", "Invalid or expired token").json)]
            /\ pc' = [pc EXCEPT ![r] = "done"]
            /\ UNCHANGED <<reqUser, axiosCalls>>
       [] Verdict(result) = "not found" ->
            /\ res' = [res EXCEPT ![r] =
                 StatusJson(@, 401, ErrorBody("Unauthorized", "User not found").json)]
            /\ pc' = [pc EXCEPT ![r] = "done"]
            /\ UNCHANGED <<reqUser, axiosCalls>>
       [] OTHER ->
            /\ reqUser' = [reqUser EXCEPT ![r] = result.user]
            /\ axiosCalls' = [axiosCalls EXCEPT ![r] =
                 Append(@, AxiosConfig(req[r], reqUser'[r], INTERNAL_API_KEY))]
            /\ pc' = [pc EXCEPT ![r] = "axios"]
            /\ UNCHANGED res
  /\ UNCHANGED <<INTERNAL_API_KEY, req, getUserCalls, axiosResult>>

\* Mutant: an exception of the call is answered like a rejected token.
GetUserThrowsUnauthorized(r, message) ==
  /\ pc[r] = "getUser"
  /\ getUserResult[r].outcome = "none"
  /\ getUserResult' = [getUserResult EXCEPT ![r] =
       [Pending EXCEPT !.outcome = "threw", !.error = message]]
  /\ res' = [res EXCEPT ![r] =
       StatusJson(@, 401, ErrorBody("Unauthorized", "Invalid or expired token").json)]
  /\ pc' = [pc EXCEPT ![r] = "done"]
  /\ UNCHANGED <<INTERNAL_API_KEY, req, reqUser, getUserCalls, axiosCalls, axiosResult>>

\* Mutant: the message of the exception is passed on to the client.
GetUserThrowsLeaking(r, message) ==
  /\ pc[r] = "getUser"
  /\ getUserResult[r].outcome = "none"
  /\ getUserResult' = [getUserResult EXCEPT ![r] =
       [Pending EXCEPT !.outcome = "threw", !.error = message]]
  /\ res' = [res EXCEPT ![r] =
       StatusJson(@, 500, ErrorBody("Authentication failed", message).json)]
  /\ pc' = [pc EXCEPT ![r] = "done"]
  /\ UNCHANGED <<INTERNAL_API_KEY, req, reqUser, getUserCalls, axiosCalls, axiosResult>>

\* index.js:85-91: the call threw.
GetUserThrows(r, message) ==
  /\ pc[r] = "getUser"
  /\ getUserResult[r].outcome = "none"
  /\ getUserResult' = [getUserResult EXCEPT ![r] =
       [Pending EXCEPT !.outcome = "threw", !.error = message]]
  /\ res' = [res EXCEPT ![r] =
       StatusJson(@, 500, ErrorBody("Authentication failed",
                                    "Internal authentication error").json)]
  /\ pc' = [pc EXCEPT ![r] = "done"]
  /\ UNCHANGED <<INTERNAL_API_KEY, req, reqUser, getUserCalls, axiosCalls, axiosResult>>

\* Mutant: the ETIMEDOUT branch is missing.
ProxyErrorWithoutTimeout(code) ==
  CASE code = "ECONNREFUSED" ->
         [status |-> 503,
          body |-> ErrorBody("Service Unavailable", "Internal API is not reachable")]
    [] OTHER ->
         [status |-> 500,
          body |-> ErrorBody("Internal Server Error",
                             "An error occurred while proxying the request")]

\* index.js:137-154: the status and the error object for error.code.
ProxyError(code) ==
  CASE code = "ECONNREFUSED" ->
         [status |-> 503,
          body |-> ErrorBody("Service Unavailable", "Internal API is not reachable")]
    [] code = "ETIMEDOUT" ->
         [status |-> 504,
          body |-> ErrorBody("Gateway Timeout", "Internal API request timed out")]
    [] OTHER ->
         [status |-> 500,
          body |-> ErrorBody("Internal Server Error",
                             "An error occurred while proxying the request")]

\* index.js:129-155: the relay of a response.  When sending it throws, the
\* catch branch answers, on the response object that has the copied headers.
\* written: the response object as the handler finds it.
Relay(written, response) ==
  LET copied == SetHeaders(written, response.headers)
      data == ResponseData(response.raw)
  IN IF SendThrows(data)
     THEN StatusJson(copied, ProxyError("ERR_HTTP_INVALID_STATUS_CODE").status,
                     ProxyError("ERR_HTTP_INVALID_STATUS_CODE").body.json)
     ELSE StatusSend(copied, response.status, data)

\* index.js:104-155: the downstream service answered.  axios resolves with
\* the answer whatever its status (validateStatus: () => true), unless it
\* goes after a redirect; the handler then copies the headers and sends
\* status and body, or answers in its catch branch when that throws.
AxiosResolves(r, response) ==
  /\ pc[r] = "axios"
  /\ axiosResult[r].outcome = "none"
  /\ IF Redirected(axiosCalls[r], response)
     THEN /\ axiosCalls' = [axiosCalls EXCEPT ![r] =
               Append(@, [@[1] EXCEPT !.url = Get(response.headers, "location")])]
          /\ UNCHANGED <<axiosResult, res, pc>>
     ELSE /\ axiosResult' = [axiosResult EXCEPT ![r] =
               [Pending EXCEPT !.outcome = "response", !.status = response.status,
                               !.headers = response.headers, !.raw = response.raw]]
          /\ res' = [res EXCEPT ![r] = Relay(@, response)]
          /\ pc' = [pc EXCEPT ![r] = "done"]
          /\ UNCHANGED axiosCalls
  /\ UNCHANGED <<INTERNAL_API_KEY, req, reqUser, getUserCalls, getUserResult>>

\* index.js:134-155: axios rejected with a transport error.
AxiosRejects(r, code) ==
  /\ pc[r] = "axios"
  /\ axiosResult[r].outcome = "none"
  /\ axiosResult' = [axiosResult EXCEPT ![r] =
       [Pending EXCEPT !.outcome = "error", !.code = code]]
  /\ res' = [res EXCEPT ![r] = StatusJson(@, ProxyError(code).status, ProxyError(code).body.json)]
  /\ pc' = [pc EXCEPT ![r] = "done"]
  /\ UNCHANGED <<INTERNAL_API_KEY, req, reqUser, getUserCalls, getUserResult, axiosCalls>>

\* index.js:62 and index.js:104-124 set no timeout: a collaborator that never
\* answers leaves the awaited call unsettled for good.
GetUserHangs(r) ==
  /\ pc[r] = "getUser"
  /\ getUserResult[r].outcome = "none"
  /\ getUserResult' = [getUserResult EXCEPT ![r] = [Pending EXCEPT !.outcome = "hung"]]
  /\ UNCHANGED <<INTERNAL_API_KEY, pc, req, reqUser, getUserCalls, axiosCalls, axiosResult, res>>

AxiosHangs(r) ==
  /\ pc[r] = "axios"
  /\ axiosResult[r].outcome = "none"
  /\ axiosResult' = [axiosResult EXCEPT ![r] = [Pending EXCEPT !.outcome = "hung"]]
  /\ UNCHANGED <<INTERNAL_API_KEY, pc, req, reqUser, getUserCalls, getUserResult, axiosCalls, res>>

\* ------------------------------------------------------------ specification
\* One request, from any client input, through the pipeline.
Step(r, inputs) ==
  \/ pc[r] = "idle" /\ \E q \in inputs : JsonBodyRejected(r, q)
  \/ pc[r] = "idle" /\ \E q \in inputs : CorsPreflight(r, q)
  \/ pc[r] = "idle" /\ \E q \in inputs : Health(r, q)
  \/ pc[r] = "idle" /\ \E q \in inputs : CatchAll(r, q)
  \/ pc[r] = "idle" /\ \E q \in inputs : VerifyAuthRejects(r, q)
  \/ pc[r] = "idle" /\ \E q \in inputs : VerifyAuthCalls(r, q)
  \/ pc[r] = "getUser" /\ \E result \in GetUserResults : GetUserReturns(r, result)
  \/ pc[r] = "getUser" /\ \E message \in GetUserExceptions : GetUserThrows(r, message)
  \/ pc[r] = "axios" /\ \E response \in DownstreamResponses : AxiosResolves(r, response)
  \/ pc[r] = "axios" /\ \E code \in ErrorCodes : AxiosRejects(r, code)
  \/ GetUserHangs(r)
  \/ AxiosHangs(r)

AllRequests == Requests(ApiPaths \cup OtherPaths)

Next == Step(1, AllRequests)

Spec == Init /\ [][Next]_vars

\* ------------------------------------------------------------------ claims
\* The Authorization value a client sent (Absent: none), whatever the case
\* of the header's name.
SentAuthorization(q) ==
  LET hits == {i \in 1..Len(q.headers) : ToLowerCase(q.headers[i][1]) = "authorization"}
  IN IF hits = {} THEN Absent ELSE q.headers[CHOOSE i \in hits : TRUE][2]

\* The request is on the forwarding prefix.
OnApiPrefix(r) == pc[r] # "idle" /\ StartsWith(LowerPath(req[r].path), <<"/", "a", "p", "i", "/">>)

\* C1: the downstream service is called for a request only after the identity
\* provider's resolve call for that request returned a user record and no
\* error; a rejected request never reaches the forwarder.
C1_AuthBeforeForward ==
  \A r \in Reqs :
    axiosCalls[r] # << >> =>
      /\ OnApiPrefix(r)
      /\ Len(getUserCalls[r]) = 1
      /\ getUserResult[r].outcome = "returned"
      /\ getUserResult[r].user \in Users
      /\ getUserResult[r].error = ""

C1_Witness ==
  \E r \in Reqs : pc[r] = "axios" /\ Len(axiosCalls[r]) = 1

\* C2: a request on the proxied prefix whose Authorization header is absent,
\* or does not start with 'Bearer ', is answered 401 with the fixed body and
\* the downstream service is never contacted for it.
C2_MissingOrMalformedHeader ==
  \A r \in Reqs :
    ( /\ OnApiPrefix(r)
      /\ \/ SentAuthorization(req[r]) = Absent
         \/ ~StartsWith(SentAuthorization(req[r]), BearerPrefix) )
    => /\ pc[r] = "done"
       /\ res[r].status = 401
       /\ res[r].body = Json(<< <<"error", "Unauthorized">>,
            <<"message", "Missing or invalid Authorization header. Expected: Bearer <token>">> >>)
       /\ axiosCalls[r] = << >>

\* C2, amended: the same for every request that gets past the middleware of
\* index.js:9-10 (an OPTIONS request is answered 204 by cors(), a request
\* whose JSON body does not parse 400 by express.json()); for no request with
\* such a header is the downstream service contacted.
C2_RejectedAtTheRoute ==
  \A r \in Reqs :
    ( /\ OnApiPrefix(r)
      /\ \/ SentAuthorization(req[r]) = Absent
         \/ ~StartsWith(SentAuthorization(req[r]), BearerPrefix) )
    => /\ pc[r] = "done"
       /\ axiosCalls[r] = << >>
       /\ getUserCalls[r] = << >>
       /\ res[r].status = IF BodyParseFails(req[r]) THEN 400
                          ELSE IF req[r].method = "OPTIONS" THEN 204 ELSE 401
       /\ ReachesRoutes(req[r]) =>
            res[r].body = Json(<< <<"error", "Unauthorized">>,
              <<"message", "Missing or invalid Authorization header. Expected: Bearer <token>">> >>)

C2_Witness ==
  \E r \in Reqs :
    /\ OnApiPrefix(r)
    /\ req[r].method = "POST"
    /\ SentAuthorization(req[r]) = <<"B", "a", "s", "i", "c", " ", "t1">>
    /\ res[r].status = 401

\* C3: when the identity provider returns an error, or no error and no user,
\* the request is answered 401 'Unauthorized' with the message 'Invalid or
\* expired token', respectively 'User not found', and the downstream service
\* is never contacted for it.
C3_RejectedByProvider ==
  \A r \in Reqs :
    ( /\ getUserResult[r].outcome = "returned"
      /\ (getUserResult[r].error # "" \/ getUserResult[r].user = NoUser) )
    => /\ pc[r] = "done"
       /\ res[r].status = 401
       /\ res[r].body = Json(<< <<"error", "Unauthorized">>,
            <<"message", IF getUserResult[r].error # "" THEN "Invalid or expired token"
                         ELSE "User not found">> >>)
       /\ axiosCalls[r] = << >>

C3_Witness ==
  \E r \in Reqs :
    /\ getUserResult[r].outcome = "returned"
    /\ getUserResult[r].error = ""
    /\ getUserResult[r].user = NoUser
    /\ res[r].status = 401

\* C4: the request sent downstream carries X-User-Id and X-User-Email of the
\* resolved identity, whatever headers the client sent, and does not carry
\* the client's Authorization header.
C4_IdentityHeaders ==
  \A r \in Reqs : \A i \in 1..Len(axiosCalls[r]) :
    /\ SentHeader(axiosCalls[r][i], "x-user-id") = <<getUserResult[r].user.id>>
    /\ SentHeader(axiosCalls[r][i], "x-user-email") = <<getUserResult[r].user.email>>
    /\ SentHeader(axiosCalls[r][i], "authorization") = Absent

\* The request failed authentication: it reached verifyAuth, is answered and
\* reached no forwarder.
AuthFailed(r) ==
  OnApiPrefix(r) /\ ReachesRoutes(req[r]) /\ pc[r] = "done" /\ axiosCalls[r] = << >>

\* The client's credential is the problem: header missing or malformed, token
\* rejected by the provider, or no user for it.
CredentialProblem(r) ==
  \/ SentAuthorization(req[r]) = Absent
  \/ ~StartsWith(TrimEnd(SentAuthorization(req[r])), BearerPrefix)
  \/ /\ getUserResult[r].outcome = "returned"
     /\ (getUserResult[r].error # "" \/ getUserResult[r].user = NoUser)

\* C5: a credential problem is answered 401 and a resolver call that throws
\* is answered 500 with an {error, message} body; an authentication failure
\* has no other status.
C5_AuthFailureSplit ==
  \A r \in Reqs :
    AuthFailed(r) =>
      /\ res[r].status \in {401, 500}
      /\ CredentialProblem(r) <=> res[r].status = 401
      /\ getUserResult[r].outcome = "threw" <=> res[r].status = 500
      /\ res[r].body.kind = "json"
      /\ {res[r].body.json[k][1] : k \in 1..Len(res[r].body.json)} = {"error", "message"}

C5_Witness ==
  \E r \in Reqs : AuthFailed(r) /\ getUserResult[r].outcome = "threw" /\ res[r].status = 500

\* C6: whatever response the downstream service returns, the proxy answers
\* with exactly its status code and exactly its body, never with an error
\* object of its own.
C6_StatusTransparency ==
  \A r \in Reqs :
    axiosResult[r].outcome = "response" =>
      /\ pc[r] = "done"
      /\ res[r].status = axiosResult[r].status
      /\ res[r].body = Bytes(axiosResult[r].raw)

\* C7: a refused connection is answered 503 'Service Unavailable' / 'Internal
\* API is not reachable', a timed-out call 504 'Gateway Timeout', any other
\* transport failure 500 'Internal Server Error'.
C7_TransportFailureMapping ==
  \A r \in Reqs :
    axiosResult[r].outcome = "error" =>
      /\ pc[r] = "done"
      /\ res[r].body.kind = "json"
      /\ axiosResult[r].code = "ECONNREFUSED" =>
           /\ res[r].status = 503
           /\ res[r].body.json = << <<"error", "Service Unavailable">>,
                                    <<"message", "Internal API is not reachable">> >>
      /\ axiosResult[r].code = "ETIMEDOUT" =>
           /\ res[r].status = 504
           /\ Get(res[r].body.json, "error") = "Gateway Timeout"
      /\ axiosResult[r].code \notin {"ECONNREFUSED", "ETIMEDOUT"} =>
           /\ res[r].status = 500
           /\ Get(res[r].body.json, "error") = "Internal Server Error"

C7_Witness ==
  \E r \in Reqs : axiosResult[r].code = "ETIMEDOUT" /\ res[r].status = 504

\* Requests without query string and with at most two header lines.
PlainRequests ==
  { q \in AllRequests : q.query = << >> /\ Len(q.headers) <= 2 /\ q.raw \in {"", "{bad"} }

NextLive == Step(1, PlainRequests)

\* The scheduling the code has: a handler awaiting a call goes on once the
\* call settles, and a call that can settle does.
SpecLive == Init /\ [][NextLive]_vars /\ WF_vars(NextLive)

\* C8: every request eventually receives a response, also when an outbound
\* call never completes.
C8_EveryRequestAnswered ==
  \A r \in Reqs : (pc[r] \in {"getUser", "axios"}) ~> (pc[r] = "done")

\* The body sent downstream is the body of the request: the same bytes, or
\* JSON text of the same value.
SameBody(q, cfg) ==
  \/ SentBody(cfg) = q.raw
  \/ /\ JsonParse(q.raw) # "SyntaxError"
     /\ JsonParse(SentBody(cfg)) = JsonParse(q.raw)

\* C9: the request issued downstream has the method, the body and exactly the
\* query parameters of the incoming request, each parameter once.
C9_PassThrough ==
  \A r \in Reqs : \A i \in 1..Len(axiosCalls[r]) :
    /\ axiosCalls[r][i].method = req[r].method
    /\ SameBody(req[r], axiosCalls[r][i])
    /\ SentQuery(axiosCalls[r][i]) = req[r].query

\* C10: for a request to /api/<suffix> the downstream path is the configured
\* base URL, one '/', and <suffix> unchanged.
C10_PathConstruction ==
  \A r \in Reqs : \A i \in 1..Len(axiosCalls[r]) :
    StartsWith(req[r].path, <<"/", "a", "p", "i", "/">>) =>
      SentPath(axiosCalls[r][i]) =
        INTERNAL_API_URL \o <<"/">> \o SubSeq(req[r].path, 6, Len(req[r].path))

C10_Witness ==
  \E r \in Reqs :
    /\ Len(axiosCalls[r]) = 1
    /\ req[r].path = <<"/", "a", "p", "i", "/", "users", "/", "42">>
    /\ req[r].query # << >>
    /\ SentPath(axiosCalls[r][1]) = <<"http://internal:8080", "/", "users", "/", "42">>

\* The request is to the path /health.
OnHealth(r) == pc[r] # "idle" /\ req[r].path = <<"/", "health">>

\* The payload of the probe: status 'ok' and the two configured endpoints.
HealthPayload(body) ==
  /\ body.kind = "json"
  /\ Get(body.json, "status") = "ok"
  /\ Get(body.json, "supabase") = SUPABASE_URL[1]
  /\ Get(body.json, "internalApi") = INTERNAL_API_URL[1]

Unmatched(r) ==
  /\ pc[r] # "idle"
  /\ LowerPath(req[r].path) # <<"/", "health">>
  /\ ~StartsWith(LowerPath(req[r].path), <<"/", "a", "p", "i", "/">>)

NotFoundBody ==
  Json(<< <<"error", "Not Found">>,
          <<"message", "Invalid endpoint. API routes should start with /api/">> >>)

\* C12: a request to a path that is neither /health, nor under /api/, nor
\* the root is answered 404 with the fixed 'Not Found' body, a request to
\* the root 200 with the self-description; no outbound call is made.
C12_UnmatchedPaths ==
  \A r \in Reqs :
    Unmatched(r) =>
      /\ pc[r] = "done"
      /\ getUserCalls[r] = << >>
      /\ axiosCalls[r] = << >>
      /\ IF req[r].path = <<"/">>
         THEN res[r].status = 200 /\ res[r].body = Json(SelfDescription)
         ELSE res[r].status = 404 /\ res[r].body = NotFoundBody

\* C12, amended: the same for every request that gets past the middleware
\* of index.js:9-10; an OPTIONS request is answered 204 by cors() and a
\* request whose JSON body does not parse 400 by express.json().  No request
\* to such a path causes an outbound call.
C12_CatchAllRouting ==
  \A r \in Reqs :
    Unmatched(r) =>
      /\ pc[r] = "done"
      /\ getUserCalls[r] = << >>
      /\ axiosCalls[r] = << >>
      /\ ReachesRoutes(req[r]) =>
           IF req[r].path = <<"/">>
           THEN res[r].status = 200 /\ res[r].body = Json(SelfDescription)
           ELSE res[r].status = 404 /\ res[r].body = NotFoundBody
      /\ ~ReachesRoutes(req[r]) =>
           res[r].status = IF BodyParseFails(req[r]) THEN 400 ELSE 204

C12_Witness ==
  \E r \in Reqs :
    /\ Unmatched(r)
    /\ req[r].path = <<"/", "a", "p", "i">>
    /\ req[r].method = "POST"
    /\ SentAuthorization(req[r]) = BearerPrefix \o <<"t1">>
    /\ res[r].status = 404
    /\ res[r].body = NotFoundBody

\* A GET on the forwarding prefix and its repetitions: request 1 is any of
\* these GET requests, every later request is request 1 again, sent once
\* request 1 has arrived; the handlers of the requests interleave as their
\* awaits allow.
RepeatedGets ==
  { q \in AllRequests :
      /\ q.method = "GET"
      /\ q.path = <<"/", "a", "p", "i", "/", "users">>
      /\ q.headers \in { << <<"Authorization", BearerPrefix \o <<"t1">> >> >>,
                         << <<"Authorization", <<"B", "a", "s", "i", "c", " ", "t1">> >> >> }
      /\ q.query \in { << >>, <<"a=1", "b=2">> } }

NextTwice ==
  \/ pc[1] = "idle" /\ \E q \in RepeatedGets : VerifyAuthRejects(1, q)
  \/ pc[1] = "idle" /\ \E q \in RepeatedGets : VerifyAuthCalls(1, q)
  \/ \E r \in Reqs \ {1} : pc[r] = "idle" /\ pc[1] # "idle" /\ VerifyAuthRejects(r, req[1])
  \/ \E r \in Reqs \ {1} : pc[r] = "idle" /\ pc[1] # "idle" /\ VerifyAuthCalls(r, req[1])
  \/ \E r \in Reqs : pc[r] = "getUser" /\ \E result \in GetUserResults : GetUserReturns(r, result)
  \/ \E r \in Reqs : pc[r] = "getUser" /\ \E message \in GetUserExceptions : GetUserThrows(r, message)
  \/ \E r \in Reqs : pc[r] = "axios" /\ \E response \in DownstreamResponses : AxiosResolves(r, response)
  \/ \E r \in Reqs : pc[r] = "axios" /\ \E code \in ErrorCodes : AxiosRejects(r, code)

SpecTwice == Init /\ [][NextTwice]_vars

\* C13: of the same authenticated GET issued more than once, every issue
\* causes its own identity-resolution call and, when that call resolves to a
\* user, its own downstream call, and is answered by what the collaborators
\* answered to it: 401 when the provider rejected its token, the relay of
\* the downstream answer when its downstream call was answered, whatever the
\* other issues got.
C13_NoCaching ==
  \A r \in Reqs :
    (pc[r] # "idle" /\ StartsWith(SentAuthorization(req[r]), BearerPrefix)) =>
      /\ getUserCalls[r] = <<Token(SentAuthorization(req[r]))>>
      /\ getUserResult[r].outcome = "none" => pc[r] = "getUser" /\ axiosCalls[r] = << >>
      /\ (getUserResult[r].outcome = "returned" /\ Verdict(getUserResult[r]) # "authenticated") =>
           pc[r] = "done" /\ res[r].status = 401 /\ axiosCalls[r] = << >>
      /\ getUserResult[r].outcome = "threw" =>
           pc[r] = "done" /\ res[r].status = 500 /\ axiosCalls[r] = << >>
      /\ (getUserResult[r].outcome = "returned" /\ Verdict(getUserResult[r]) = "authenticated") =>
           /\ axiosCalls[r] = <<AxiosConfig(req[r], getUserResult[r].user, INTERNAL_API_KEY)>>
           /\ axiosResult[r].outcome = "none" => pc[r] = "axios"
           /\ axiosResult[r].outcome = "response" =>
                /\ pc[r] = "done"
                /\ res[r] = Relay(Cors(FreshRes), [status |-> axiosResult[r].status,
                                                    headers |-> axiosResult[r].headers,
                                                    raw |-> axiosResult[r].raw])
           /\ axiosResult[r].outcome = "error" =>
                pc[r] = "done" /\ res[r].status = ProxyError(axiosResult[r].code).status

\* The first issue was relayed, the second one rejected by the provider.
C13_Witness ==
  /\ req[2] = req[1]
  /\ StartsWith(SentAuthorization(req[1]), BearerPrefix)
  /\ req[1].method = "GET"
  /\ axiosResult[1].outcome = "response" /\ res[1].status = 200
  /\ Len(getUserCalls[2]) = 1
  /\ getUserResult[2].error = "token is expired"
  /\ res[2].status = 401 /\ axiosCalls[2] = << >>

\* The downstream service answered the request with a redirect.
RedirectAnswer(result) ==
  /\ result.outcome = "response"
  /\ result.status \in 300..399
  /\ Get(result.headers, "location") # Absent

\* C14: no request causes a second downstream call, and a redirect answer of
\* the downstream service is relayed with its status and its Location.
C14_RedirectsNotFollowed ==
  \A r \in Reqs :
    /\ Len(axiosCalls[r]) <= 1
    /\ RedirectAnswer(axiosResult[r]) =>
         /\ pc[r] = "done"
         /\ res[r].status = axiosResult[r].status
         /\ Get(res[r].headers, "location") = Get(axiosResult[r].headers, "location")

\* The proxy answered by itself, before any downstream call: an {error,
\* message} object of verifyAuth or of the catch-all, or the document of
\* /health or of the root.
AnsweredLocally(r) ==
  /\ axiosCalls[r] = << >>
  /\ res[r].body.kind = "json"
  /\ res[r].status \in {200, 401, 404, 500}

\* The response is the downstream one: its status, its headers (but for
\* the two that describe the body as it is written) and a body that is not
\* an object of the proxy.
FullyRelayed(r) ==
  /\ axiosResult[r].outcome = "response"
  /\ res[r].status = axiosResult[r].status
  /\ \A i \in 1..Len(axiosResult[r].headers) :
       axiosResult[r].headers[i][1] \notin {"content-type", "content-length"} =>
         Get(res[r].headers, axiosResult[r].headers[i][1]) = axiosResult[r].headers[i][2]
  /\ res[r].body.kind = "bytes"

\* The response is the error object of the forwarder, for a call that failed.
ForwarderFailure(r) ==
  /\ axiosResult[r].outcome = "error"
  /\ res[r].status \in {503, 504, 500}
  /\ res[r].body = ProxyError(axiosResult[r].code).body

\* C15: no request is answered twice, and the answer of a request that
\* reached the routes is exactly one of a local answer of the proxy, the
\* full relay of the downstream response, or the error object of the
\* forwarder for a failed call; none has the status or headers of a
\* downstream response together with an error object.
C15_AtomicOutcome ==
  \A r \in Reqs :
    /\ res[r].sends <= 1
    /\ pc[r] = "done" => res[r].sends = 1
    /\ (pc[r] = "done" /\ ReachesRoutes(req[r])) =>
         \/ AnsweredLocally(r)
         \/ FullyRelayed(r)
         \/ ForwarderFailure(r)

\* An exception was raised while the request was handled: by express.json()
\* on the body, by the call of the identity provider, by axios for a cause
\* index.js has no status for, or by the relay of the downstream response.
ExceptionRaised(r) ==
  /\ pc[r] # "idle"
  /\ \/ BodyParseFails(req[r])
     \/ getUserResult[r].outcome = "threw"
     \/ axiosResult[r].outcome = "error" /\ axiosResult[r].code \notin {"ECONNREFUSED", "ETIMEDOUT"}
     \/ axiosResult[r].outcome = "response" /\ SendThrows(ResponseData(axiosResult[r].raw))

\* C16: a request in whose handling an exception was raised, before, in or
\* after verifyAuth, is answered 500 with an {error, message} object.
C16_ExceptionsBecome500 ==
  \A r \in Reqs :
    ExceptionRaised(r) =>
      /\ pc[r] = "done"
      /\ res[r].sends = 1
      /\ res[r].status = 500
      /\ res[r].body.kind = "json"
      /\ {res[r].body.json[k][1] : k \in 1..Len(res[r].body.json)} = {"error", "message"}

\* The identity provider answered both requests with an error, returned or
\* thrown, and the two answers differ in nothing but what the error says.
SameButErrorContent(a, b) ==
  /\ a.outcome \in {"returned", "threw"}
  /\ a.outcome = b.outcome
  /\ a.user = b.user
  /\ a.error # "" /\ b.error # ""

UnauthorizedBodies ==
  { Json(<< <<"error", "Unauthorized">>, <<"message", m>> >>) :
      m \in { "Missing or invalid Authorization header. Expected: Bearer <token>",
              "Invalid or expired token",
              "User not found" } }

\* C17: two issues of one request whose identity-provider answers differ
\* only in the content of the error get the same status and the same body;
\* a 401 of verifyAuth has one of the three fixed 'Unauthorized' objects as
\* its body, its 500 the fixed 'Authentication failed' object.
C17_NoProviderLeak ==
  /\ \A r1, r2 \in Reqs :
       ( /\ req[r1] = req[r2]
         /\ SameButErrorContent(getUserResult[r1], getUserResult[r2]) )
       => /\ res[r1].status = res[r2].status
          /\ res[r1].body = res[r2].body
  /\ \A r \in Reqs :
       /\ (pc[r] = "done" /\ axiosCalls[r] = << >> /\ res[r].status = 401) =>
            res[r].body \in UnauthorizedBodies
       /\ getUserResult[r].outcome = "threw" =>
            /\ res[r].status = 500
            /\ res[r].body = Json(<< <<"error", "Authentication failed">>,
                                     <<"message", "Internal authentication error">> >>)

\* Two issues whose calls threw with different messages, answered alike.
C17_Witness ==
  /\ req[1] = req[2]
  /\ getUserResult[1].outcome = "threw" /\ getUserResult[1].error = "fetch failed"
  /\ getUserResult[2].outcome = "threw" /\ getUserResult[2].error = "socket hang up"
  /\ res[1].status = 500
  /\ res[1].body = res[2].body

\* C18: the headers of a request sent downstream hold no authorization, host
\* or content-length header, in whatever case the client wrote the name, and
\* hold every other header of the incoming request with its value; names
\* are compared as HTTP compares them, without regard to case (Node hands
\* them to the handler in lower case).
C18_HeaderBlocklist ==
  \A r \in Reqs : \A i \in 1..Len(axiosCalls[r]) :
    /\ \A name \in {"authorization", "host", "content-length"} :
         SentHeader(axiosCalls[r][i], name) = Absent
    /\ \A k \in 1..Len(req[r].headers) :
         ToLowerCase(req[r].headers[k][1]) \notin {"authorization", "host", "content-length"} =>
           SentHeader(axiosCalls[r][i], ToLowerCase(req[r].headers[k][1])) = req[r].headers[k][2]

C18_Witness ==
  \E r \in Reqs :
    /\ Len(axiosCalls[r]) = 1
    /\ \E k \in 1..Len(req[r].headers) : req[r].headers[k] = <<"Host", <<"proxy.example">> >>
    /\ \E k \in 1..Len(req[r].headers) : req[r].headers[k] = <<"Accept", <<"text/html">> >>
    /\ SentHeader(axiosCalls[r][1], "host") = Absent
    /\ SentHeader(axiosCalls[r][1], "accept") = <<"text/html">>

\* C19: with a secret configured every request sent downstream carries
\* X-Internal-Key equal to it, whatever headers the client sent; without
\* one the proxy adds no such header (the only X-Internal-Key a request can
\* then carry is the client's own).
C19_SharedSecret ==
  \A r \in Reqs : \A i \in 1..Len(axiosCalls[r]) :
    IF INTERNAL_API_KEY # ""
    THEN SentHeader(axiosCalls[r][i], "x-internal-key") = <<INTERNAL_API_KEY>>
    ELSE SentHeader(axiosCalls[r][i], "x-internal-key") = Get(ReqHeaders(req[r]), "x-internal-key")

\* C20: every request sent downstream has Content-Type application/json,
\* whatever Content-Type the incoming request had.
C20_JsonContentType ==
  \A r \in Reqs : \A i \in 1..Len(axiosCalls[r]) :
    SentHeader(axiosCalls[r][i], "content-type") = <<"application/json">>

\* The response of the request is the relay of a downstream response: axios
\* resolved and index.js:133 sent its status and data.
RelayedOutcome(r) ==
  /\ pc[r] = "done"
  /\ axiosResult[r].outcome = "response"
  /\ ~IsNumber(JsonParse(axiosResult[r].raw))

GetUserFailed(r) ==
  \/ getUserResult[r].outcome = "threw"
  \/ getUserResult[r].outcome = "returned" /\ getUserResult[r].error # ""

\* C22: for a request the identity provider is called at most once and the
\* downstream service at most once; once an outbound call failed (error or
\* exception of the provider, refused connection, timeout, other transport
\* error) no call is issued again and the request has its one response.
C22_SingleAttempt ==
  \A r \in Reqs :
    /\ Len(getUserCalls[r]) <= 1
    /\ Len(axiosCalls[r]) <= 1
    /\ GetUserFailed(r) =>
         /\ pc[r] = "done" /\ res[r].sends = 1
         /\ Len(getUserCalls[r]) = 1 /\ axiosCalls[r] = << >>
    /\ axiosResult[r].outcome = "error" =>
         /\ pc[r] = "done" /\ res[r].sends = 1
         /\ Len(getUserCalls[r]) = 1 /\ Len(axiosCalls[r]) = 1

C22_Witness ==
  \E r \in Reqs :
    /\ axiosResult[r].outcome = "error"
    /\ axiosResult[r].code = "ECONNREFUSED"
    /\ Len(axiosCalls[r]) = 1
    /\ res[r].status = 503 /\ res[r].sends = 1

\* Requests in flight at once: every request is any of these GET requests,
\* which differ in their token, and one of which names a user itself; they
\* arrive in any order and their handlers interleave at the two awaits.
ConcurrentGets ==
  { q \in AllRequests :
      /\ q.method = "GET"
      /\ q.path = <<"/", "a", "p", "i", "/", "users">>
      /\ q.query = << >>
      /\ q.headers \in
           { << <<"Authorization", BearerPrefix \o <<"t1">> >> >>,
             << <<"Authorization", BearerPrefix \o BearerPrefix \o <<"t1">> >>,
                <<"X-User-Id", <<"evil-id">> >> >> } }

NextConcurrent ==
  \/ \E r \in Reqs : pc[r] = "idle" /\ \E q \in ConcurrentGets : VerifyAuthCalls(r, q)
  \/ \E r \in Reqs : pc[r] = "getUser" /\ \E result \in GetUserResults : GetUserReturns(r, result)
  \/ \E r \in Reqs : pc[r] = "getUser" /\ \E message \in GetUserExceptions : GetUserThrows(r, message)
  \/ \E r \in Reqs : pc[r] = "axios" /\ \E response \in DownstreamResponses : AxiosResolves(r, response)
  \/ \E r \in Reqs : pc[r] = "axios" /\ \E code \in ErrorCodes : AxiosRejects(r, code)

SpecConcurrent == Init /\ [][NextConcurrent]_vars

\* What a request has is made of its own request and of the answers to its
\* own calls, whatever the other requests in flight are and got.
OwnAnswersOnly(r) ==
  /\ pc[r] # "idle" => getUserCalls[r] = <<Token(SentAuthorization(req[r]))>>
  /\ reqUser[r] # NoUser => reqUser[r] = getUserResult[r].user
  /\ axiosCalls[r] # << >> =>
       axiosCalls[r] = <<AxiosConfig(req[r], getUserResult[r].user, INTERNAL_API_KEY)>>
  /\ axiosResult[r].outcome = "response" =>
       res[r] = Relay(Cors(FreshRes), [status |-> axiosResult[r].status,
                                       headers |-> axiosResult[r].headers,
                                       raw |-> axiosResult[r].raw])

\* C23: with any requests in flight and under every interleaving of their
\* awaits, the identity attached to a request and the X-User-Id and
\* X-User-Email sent downstream for it are those resolved from its own
\* token, and its response is the relay of its own downstream response.
C23_Isolation ==
  \A r \in Reqs :
    /\ OwnAnswersOnly(r)
    /\ \A i \in 1..Len(axiosCalls[r]) :
         /\ SentHeader(axiosCalls[r][i], "x-user-id") = <<getUserResult[r].user.id>>
         /\ SentHeader(axiosCalls[r][i], "x-user-email") = <<getUserResult[r].user.email>>

\* The request reached verifyAuth.
AtVerifyAuth(r) == OnApiPrefix(r) /\ ReachesRoutes(req[r])

\* C24: whenever the Authorization value a client sent starts with 'Bearer '
\* the credential passed to the identity provider is the rest of the value
\* after these seven characters, also when the rest holds 'Bearer ' again
\* and also when it is empty.
C24_CredentialExtraction ==
  \A r \in Reqs :
    (AtVerifyAuth(r) /\ StartsWith(SentAuthorization(req[r]), BearerPrefix)) =>
      getUserCalls[r] =
        <<SubSeq(SentAuthorization(req[r]), 8, Len(SentAuthorization(req[r])))>>

\* C24, amended: the same for the value as Node hands it to verifyAuth,
\* without the white space at its end.  The rest after 'Bearer ' is then
\* never empty: a header 'Bearer ' with nothing after the space arrives as
\* 'Bearer', is rejected by verifyAuth itself and never passed on.
C24_TokenIsRemainder ==
  \A r \in Reqs :
    AtVerifyAuth(r) =>
      LET authHeader == Get(ReqHeaders(req[r]), "authorization")
      IN /\ StartsWith(authHeader, BearerPrefix) =>
              /\ getUserCalls[r] = <<SubSeq(authHeader, 8, Len(authHeader))>>
              /\ getUserCalls[r][1] # << >>
         /\ SentAuthorization(req[r]) = BearerPrefix =>
              /\ getUserCalls[r] = << >>
              /\ pc[r] = "done" /\ res[r].status = 401

C24_Witness ==
  \E r \in Reqs :
    /\ AtVerifyAuth(r)
    /\ SentAuthorization(req[r]) = BearerPrefix \o BearerPrefix \o <<"t1">>
    /\ getUserCalls[r] = <<BearerPrefix \o <<"t1">> >>

\* C25: the identity provider is called only for a request on the
\* forwarding prefix whose Authorization value passed the check of
\* verifyAuth; for a request whose header is absent or does not start with
\* 'Bearer ', and for every request verifyAuth answered itself, it is not
\* called.
C25_NoCallForLocalReject ==
  \A r \in Reqs :
    /\ getUserCalls[r] # << >> =>
         /\ AtVerifyAuth(r)
         /\ StartsWith(Get(ReqHeaders(req[r]), "authorization"), BearerPrefix)
    /\ ( /\ pc[r] # "idle"
         /\ \/ SentAuthorization(req[r]) = Absent
            \/ ~StartsWith(SentAuthorization(req[r]), BearerPrefix) )
       => getUserCalls[r] = << >> /\ getUserResult[r].outcome = "none"
    /\ ( /\ pc[r] = "done"
         /\ res[r].body = ErrorBody("Unauthorized",
              "Missing or invalid Authorization header. Expected: Bearer <token>") )
       => getUserCalls[r] = << >>

C25_Witness ==
  \E r \in Reqs :
    /\ AtVerifyAuth(r)
    /\ SentAuthorization(req[r]) = <<"b", "e", "a", "r", "e", "r", " ", "t1">>
    /\ pc[r] = "done" /\ res[r].status = 401
    /\ getUserCalls[r] = << >>

====
